---- MODULE Spec2Model ----
(***************************************************************************)
(* Model of gbstools/parser.py: the Reader (parse_ped, parse_norm, next),  *)
(* the pileup genotype-likelihood model (_PileupData, CallData), the two   *)
(* EM drivers (Marker, PedMarker) and Writer.write_record.                 *)
(*                                                                         *)
(* Python values are records [k, n, d]: k is the Python type ("none",      *)
(* "int", "float", "bool", "str", one of the float specials "ninf", "pinf", *)
(* "nan", or "lnratio": the float -2 ln(h0 / h1) of two mixture sums), and *)
(* n/d is the exact value as a normalised fraction (d > 0).  Floats are    *)
(* modelled by exact rationals.                                            *)
(***************************************************************************)
EXTENDS Integers, Sequences, FiniteSets, TLC

VARIABLES
    mode,         \* "marker" (Marker) or "ped" (PedMarker)
    solver,       \* the solver's behaviour on each track (a script of outcomes)
    af,           \* record.INFO['AF'][0], None when absent
    dispcfg,      \* Reader.disp: slope and intercept
    calls,        \* the marker's call list: [sample, DP, PL (present or not)]
    disp,         \* marker.disp
    param,        \* marker.param: track -> history of snapshots
    lik_ratio,    \* marker.lik_ratio
    info,         \* marker.info
    record,       \* INFO of the written record
    solverCalls,  \* number of solver calls made
    pc,           \* "em", "lr", "info", "written", "crashed"
    exc,          \* the exception that ended the marker's processing
    ret,          \* the last update_param call: its input and its result
    pin,          \* _PileupData's arguments: the pileup, ref, alt
    pout,         \* the pileup's three sums, self.data and the CallData
    ped,          \* the lines of the PED file, None without one
    norm,         \* the normalization factors file, None without one
    alignments,   \* Reader.alignments: the samples that have a bam file
    dpmode,       \* Reader.dpmode
    family,       \* Reader.family
    normfactors,  \* Reader.normfactors
    rmarker,      \* what the last Reader.next() returned: class, calls, info
    rpc           \* "idle", "ready", "done", "failed"

mvars == <<mode, solver, af, dispcfg, calls, disp, param, lik_ratio, info,
           record, solverCalls, pc, exc, ret>>
pvars == <<pin, pout>>
rvars == <<ped, norm, alignments, dpmode, family, normfactors, rmarker, rpc>>
vars == <<mvars, pvars, rvars>>

(* ------------------------------ bounds -------------------------------- *)
\* Longest parameter history the EM loop is allowed to build (iteration cap).
MaxIter == 3

(* --------------------------- Python values ---------------------------- *)
None == [k |-> "none", n |-> 0, d |-> 1]
NegInf == [k |-> "ninf", n |-> 0, d |-> 1]
PosInf == [k |-> "pinf", n |-> 0, d |-> 1]
NaN == [k |-> "nan", n |-> 0, d |-> 1]

Abs(x) == IF x < 0 THEN -x ELSE x

RECURSIVE GCD(_, _)
GCD(a, b) == IF b = 0 THEN a ELSE GCD(b, a % b)

\* The value n/d of Python type k, as a normalised fraction.
Mk(k, n, d) ==
    LET s == IF d < 0 THEN -1 ELSE 1
        g == GCD(Abs(n), Abs(d))
    IN [k |-> k, n |-> (s * n) \div g, d |-> (s * d) \div g]

Flt(n, d) == Mk("float", n, d)
IntV(i) == [k |-> "int", n |-> i, d |-> 1]
BoolV(b) == [k |-> "bool", n |-> IF b THEN 1 ELSE 0, d |-> 1]

IsNum(v) == v.k \in {"int", "float"}
\* isinstance(val, float)
IsFloat(v) == v.k \in {"float", "ninf", "pinf", "nan", "lnratio"}

\* int op int is an int, anything with a float is a float.
Kind(a, b) == IF a.k = "int" /\ b.k = "int" THEN "int" ELSE "float"

\* Fractions are brought to their least common denominator.
LCM(a, b) == (a \div GCD(a, b)) * b
OnLCM(a, b) == a.n * (LCM(a.d, b.d) \div a.d)

VAdd(a, b) == Mk(Kind(a, b), OnLCM(a, b) + OnLCM(b, a), LCM(a.d, b.d))
VSub(a, b) == Mk(Kind(a, b), OnLCM(a, b) - OnLCM(b, a), LCM(a.d, b.d))
\* (n1/d1) * (n2/d2), cancelling across before multiplying.
Times(k, n1, d1, n2, d2) ==
    LET g1 == GCD(Abs(n1), Abs(d2))
        g2 == GCD(Abs(n2), Abs(d1))
    IN Mk(k, (n1 \div g1) * (n2 \div g2), (d1 \div g2) * (d2 \div g1))
VMul(a, b) == Times(Kind(a, b), a.n, a.d, b.n, b.d)
\* float(a) / b, b # 0
VDiv(a, b) == Times("float", a.n, a.d, b.d, b.n)
VAbs(a) == [a EXCEPT !.n = Abs(a.n)]
VLt(a, b) == OnLCM(a, b) < OnLCM(b, a)
VLe(a, b) == OnLCM(a, b) <= OnLCM(b, a)
\* Python's max(a, b) and min(a, b): the first argument wins a tie.
VMax(a, b) == IF VLt(a, b) THEN b ELSE a
VMin(a, b) == IF VLt(b, a) THEN b ELSE a

\* a - b on floats with infinities (IEEE): inf - inf is nan.
FSub(a, b) ==
    IF a.k = "nan" \/ b.k = "nan" THEN NaN
    ELSE IF IsNum(a) /\ IsNum(b)
    THEN Mk("float", OnLCM(a, b) - OnLCM(b, a), LCM(a.d, b.d))
    ELSE IF IsNum(a) THEN (IF b.k = "ninf" THEN PosInf ELSE NegInf)
    ELSE IF IsNum(b) THEN a
    ELSE IF a.k = b.k THEN NaN
    ELSE a

\* c * x for a finite negative float c (c = -2.0 in the likelihood ratios).
FMulNeg(c, x) ==
    IF x.k = "nan" THEN NaN
    ELSE IF x.k = "ninf" THEN PosInf
    ELSE IF x.k = "pinf" THEN NegInf
    ELSE Mk("float", c.n * x.n, c.d * x.d)

Last(s) == s[Len(s)]

\* The result of a Python expression: a value, or an exception raised.
Ok(v) == [exc |-> "none", v |-> v]
Raise(e) == [exc |-> e, v |-> None]

(* ------------------- the single-step solver (em.py) -------------------- *)
\* What one call of em.update / em.ped_update may do: raise, or return a new
\* snapshot whose parameters moved by the given steps.
Step(raises, dphi, dlam, ddelta, loglik, fail) ==
    [raises |-> raises, dphi |-> dphi, dlam |-> dlam, ddelta |-> ddelta,
     loglik |-> loglik, fail |-> fail]

Zero == Flt(0, 1)

\* The steps sit on and just beyond the default tolerances of
\* Marker.check_convergence (0.001, 0.1, 0.005).
StepRaise == Step(TRUE, Zero, Zero, Zero, None, FALSE)
StepSmall == Step(FALSE, Flt(1, 1000), Flt(1, 10), Flt(5, 1000), Flt(-3, 1), FALSE)
StepPhi == Step(FALSE, Flt(2, 1000), Zero, Zero, Flt(-2, 1), FALSE)
StepLam == Step(FALSE, Zero, Flt(1, 5), Zero, Flt(-5, 2), FALSE)
StepDelta == Step(FALSE, Zero, Zero, Flt(6, 1000), NegInf, FALSE)
StepFail == Step(FALSE, Zero, Flt(1, 1), Zero, Flt(-4, 1), TRUE)

\* The solver is a deterministic function of its input; it is modelled by
\* the sequence of outcomes of its successive calls on one track.  A call
\* beyond the end of the sequence repeats the last outcome.
MarkerScripts ==
    { <<StepRaise>>,
      <<StepSmall>>,
      <<StepPhi, StepSmall>>,
      <<StepLam, StepDelta>>,
      <<StepPhi, StepRaise>>,
      <<StepRaise, StepPhi>>,
      <<StepFail>> }

\* The same for em.ped_update, around PedMarker's tolerance 0.25.
PedSmall(ll) == Step(FALSE, Zero, Flt(1, 4), Zero, ll, FALSE)
PedBig(ll) == Step(FALSE, Zero, Flt(1, 2), Zero, ll, FALSE)
\* A step after which the solver itself reports failure.
PedFail == Step(FALSE, Zero, Flt(1, 2), Zero, Flt(-4, 1), TRUE)

PedScripts ==
    { <<StepRaise>>,
      <<PedSmall(Flt(-1, 1))>>,
      <<PedBig(Flt(-2, 1)), PedSmall(Flt(-3, 1))>>,
      <<PedBig(NegInf)>>,
      <<PedSmall(Flt(-1000, 1))>> }

\* The outcome of the call that extends a history of length n.
Outcome(script, n) == script[IF n < Len(script) THEN n ELSE Len(script)]

\* em.update(param[-1], calls, disp): arithmetic on an undefined (None)
\* parameter raises; otherwise the snapshot moves by the outcome's steps.  A
\* track whose dropout frequency is 0 (the null hypothesis) keeps it at 0;
\* on the other tracks phi[1] and phi[2] both move by the step, and phi[0] by
\* twice the step the other way.
em_update(snap, o) ==
    IF o.raises \/ ~IsNum(snap["lambda"]) \/ ~IsNum(snap["delta"])
    THEN Raise("Exception")
    ELSE LET phi == snap["phi"]
             moved == IF phi[3].n = 0
                      THEN <<VSub(phi[1], o.dphi), VAdd(phi[2], o.dphi), phi[3]>>
                      ELSE <<VSub(phi[1], VMul(IntV(2), o.dphi)),
                             VAdd(phi[2], o.dphi), VAdd(phi[3], o.dphi)>>
         IN Ok([phi |-> moved,
                lambda |-> VAdd(snap["lambda"], o.dlam),
                delta |-> VAdd(snap["delta"], o.ddelta),
                fail |-> o.fail,
                loglik |-> o.loglik])

(* ------------------------------- Marker ------------------------------- *)
DFREQ == Flt(1, 100)
AF_CAP == Flt(9999, 10000)
AF_DEFAULT == Flt(1, 100)
DELTA_MIN == Flt(1, 100)

RECURSIVE SumDP(_)
SumDP(cs) == IF cs = <<>> THEN 0 ELSE cs[1].DP + SumDP(Tail(cs))

Missing_Ignored(cs) == 0

\* missing = sum([call.DP == 0 for call in calls])
Missing(cs) == Cardinality({i \in 1..Len(cs) : cs[i].DP = 0})

DpMode_AnyMissing(cs) == \E i \in 1..Len(cs) : ~cs[i].PL

\* dp_mode = not bool([call.PL for call in calls if call.PL])
DpMode(cs) == ~(\E i \in 1..Len(cs) : cs[i].PL)

\* Marker.__init__: the seed snapshot of each hypothesis and the dispersion.
\* afv is record.INFO['AF'][0], or None when the record has no AF.
Marker_init(cs, afv, dcfg) ==
    LET dp_mode == DpMode(cs)
        a == IF afv = None THEN AF_DEFAULT ELSE VMin(AF_CAP, afv)
        phi0 == IF dp_mode
                THEN <<VSub(IntV(1), DFREQ), IntV(0), DFREQ>>
                ELSE <<VMul(VSub(IntV(1), a), VSub(IntV(1), DFREQ)),
                       VMul(a, VSub(IntV(1), DFREQ)), DFREQ>>
        phi0_null == IF dp_mode
                     THEN <<IntV(1), IntV(0), IntV(0)>>
                     ELSE <<VSub(IntV(1), a), a, IntV(0)>>
        dp == SumDP(cs)
        missing == Missing(cs)
        lambda0 == IF dp > 0 THEN VDiv(IntV(dp), IntV(Len(cs) - missing)) ELSE None
        delta0 == IF dp > 0
                  THEN VMax(VDiv(IntV(missing), IntV(Len(cs))), DELTA_MIN)
                  ELSE None
        fail == ~(dp > 0)
        seed(phi) == [phi |-> phi, lambda |-> lambda0, delta |-> delta0,
                      fail |-> fail, loglik |-> None]
    IN [disp |-> IF dp > 0
                 THEN VAdd(VMul(dcfg.slope, lambda0), dcfg.intercept)
                 ELSE None,
        param |-> [t \in {"H1", "H0"} |->
                     IF t = "H1" THEN <<seed(phi0)>> ELSE <<seed(phi0_null)>>]]

\* Mutant: the final else branch (a single snapshot) answers True.
Marker_check_convergence_SingleConverged(p, t) ==
    IF Last(p).fail THEN TRUE
    ELSE IF Len(p) > 1
    THEN LET a == p[Len(p)]
             b == p[Len(p) - 1]
             phi_diff == VMax(VAbs(VSub(a.phi[2], b.phi[2])),
                              VAbs(VSub(a.phi[3], b.phi[3])))
             lamb_diff == VAbs(VSub(a["lambda"], b["lambda"]))
             delta_diff == VAbs(VSub(a["delta"], b["delta"]))
         IN ~(VLt(t.phi_tol, phi_diff) \/ VLt(t.lamb_tol, lamb_diff)
              \/ VLt(t.delta_tol, delta_diff))
    ELSE TRUE

Marker_check_convergence_StrictTol(p, t) ==
    IF Last(p).fail THEN TRUE
    ELSE IF Len(p) > 1
    THEN LET a == p[Len(p)]
             b == p[Len(p) - 1]
             phi_diff == VMax(VAbs(VSub(a.phi[2], b.phi[2])),
                              VAbs(VSub(a.phi[3], b.phi[3])))
             lamb_diff == VAbs(VSub(a["lambda"], b["lambda"]))
             delta_diff == VAbs(VSub(a["delta"], b["delta"]))
         IN VLt(phi_diff, t.phi_tol) /\ VLt(lamb_diff, t.lamb_tol)
              /\ VLt(delta_diff, t.delta_tol)
    ELSE FALSE

Marker_check_convergence_AllPhi(p, t) ==
    IF Last(p).fail THEN TRUE
    ELSE IF Len(p) > 1
    THEN LET a == p[Len(p)]
             b == p[Len(p) - 1]
             phi_diff == VMax(VAbs(VSub(a.phi[1], b.phi[1])),
                              VMax(VAbs(VSub(a.phi[2], b.phi[2])),
                                   VAbs(VSub(a.phi[3], b.phi[3]))))
             lamb_diff == VAbs(VSub(a["lambda"], b["lambda"]))
             delta_diff == VAbs(VSub(a["delta"], b["delta"]))
         IN ~(VLt(t.phi_tol, phi_diff) \/ VLt(t.lamb_tol, lamb_diff)
              \/ VLt(t.delta_tol, delta_diff))
    ELSE FALSE

\* Marker.check_convergence(param, phi_tol, lamb_tol, delta_tol)
Marker_check_convergence(p, t) ==
    IF Last(p).fail THEN TRUE
    ELSE IF Len(p) > 1
    THEN LET a == p[Len(p)]
             b == p[Len(p) - 1]
             phi_diff == VMax(VAbs(VSub(a.phi[2], b.phi[2])),
                              VAbs(VSub(a.phi[3], b.phi[3])))
             lamb_diff == VAbs(VSub(a["lambda"], b["lambda"]))
             delta_diff == VAbs(VSub(a["delta"], b["delta"]))
         IN ~(VLt(t.phi_tol, phi_diff) \/ VLt(t.lamb_tol, lamb_diff)
              \/ VLt(t.delta_tol, delta_diff))
    ELSE FALSE

\* Mutant: the except branch copies the last snapshot but leaves fail alone.
Marker_update_param_NoFailFlag(p, o) ==
    LET r == em_update(Last(p), o)
    IN IF r.exc = "none" THEN r.v ELSE Last(p)

Marker_update_param_SeedOnRaise(p, o) ==
    LET r == em_update(Last(p), o)
    IN IF r.exc = "none" THEN r.v ELSE [p[1] EXCEPT !.fail = TRUE]

\* Marker.update_param(param): the solver's snapshot, or on any exception a
\* copy of the last snapshot with fail set.
Marker_update_param(p, o) ==
    LET r == em_update(Last(p), o)
    IN IF r.exc = "none" THEN r.v ELSE [Last(p) EXCEPT !.fail = TRUE]

\* Mutant: no try/except around the subtraction.
Marker_likelihood_ratio_NoExcept(pm) ==
    LET h0 == Last(pm["H0"]).loglik
        h1 == Last(pm["H1"]).loglik
    IN IF h0 = None \/ h1 = None
       THEN Raise("TypeError")
       ELSE Ok(FMulNeg(Flt(-2, 1), FSub(h0, h1)))

\* Marker.likelihood_ratio(): None - x and x - None raise TypeError, which the
\* bare except turns into None.
Marker_likelihood_ratio(pm) ==
    LET h0 == Last(pm["H0"]).loglik
        h1 == Last(pm["H1"]).loglik
    IN IF h0 = None \/ h1 = None
       THEN Ok(None)
       ELSE Ok(FMulNeg(Flt(-2, 1), FSub(h0, h1)))

\* Marker.update_info(): the INFO tags added to marker.info.
Marker_update_info(inf, pm, lr) ==
    LET h1 == Last(pm["H1"])
        h0 == Last(pm["H0"])
        new == [DLR |-> lr,
                DFreq |-> h1.phi[3],
                AFH1 |-> h1.phi[2],
                AFH0 |-> h0.phi[2],
                LambdaH1 |-> h1["lambda"],
                LambdaH0 |-> h0["lambda"],
                DigestH1 |-> h1["delta"],
                DigestH0 |-> h0["delta"],
                IterationH1 |-> IntV(Len(pm["H1"])),
                IterationH0 |-> IntV(Len(pm["H0"])),
                EMFailH1 |-> BoolV(h1.fail),
                EMFailH0 |-> BoolV(h0.fail)]
    IN [id \in DOMAIN inf \cup DOMAIN new |->
          IF id \in DOMAIN new THEN new[id] ELSE inf[id]]

(* ------------------------------- Writer ------------------------------- *)
Round3_Unrounded(v) == v

\* round(val, 3): to the nearest thousandth, a half away from zero; the float
\* specials are kept.
Round3(v) ==
    IF ~IsNum(v) THEN v
    ELSE LET m == (2000 * Abs(v.n) + v.d) \div (2 * v.d)
         IN Flt(IF v.n < 0 THEN -m ELSE m, 1000)

\* Whether write_record calls add_info for the value.
InfoWritten(v) ==
    IF IsFloat(v) THEN TRUE
    ELSE IF v.k = "bool" THEN v.n = 1
    ELSE v # None

\* Mutant: the last branch lacks its "is not None" test.
Writer_write_record_WritesNone(inf) ==
    [id \in {i \in DOMAIN inf : inf[i].k = "bool" => inf[i].n = 1} |->
       IF IsFloat(inf[id]) THEN Round3(inf[id]) ELSE inf[id]]

\* Writer.write_record(marker): the INFO tags the record receives.
Writer_write_record(inf) ==
    [id \in {i \in DOMAIN inf : InfoWritten(inf[i])} |->
       IF IsFloat(inf[id]) THEN Round3(inf[id]) ELSE inf[id]]

(* ------------------------------ PedMarker ------------------------------ *)
\* The keys of GT_FORMATTED: the six genotypes, as (ref, alt, dropout) counts.
GT_FORMATTED ==
    [g \in {<<2, 0, 0>>, <<1, 0, 1>>, <<1, 1, 0>>, <<0, 2, 0>>, <<0, 1, 1>>,
            <<0, 0, 2>>} |->
       CASE g = <<2, 0, 0>> -> "0/0"
         [] g = <<1, 0, 1>> -> "0/."
         [] g = <<1, 1, 0>> -> "0/1"
         [] g = <<0, 2, 0>> -> "1/1"
         [] g = <<0, 1, 1>> -> "1/."
         [] g = <<0, 0, 2>> -> "./."]

\* em.trio_gt: the joint parental genotypes, one EM track each.
trio_gt == {[father |-> f, mother |-> m] : f \in DOMAIN GT_FORMATTED,
                                          m \in DOMAIN GT_FORMATTED}

\* The order in which the tracks are run.
GtOrder == << <<2, 0, 0>>, <<1, 1, 0>>, <<0, 2, 0>>, <<1, 0, 1>>, <<0, 1, 1>>,
              <<0, 0, 2>> >>
TrioOrder ==
    [i \in 1..(Len(GtOrder) * Len(GtOrder)) |->
       [father |-> GtOrder[((i - 1) \div Len(GtOrder)) + 1],
        mother |-> GtOrder[((i - 1) % Len(GtOrder)) + 1]]]

\* Mutant: "or" for "and".
IsNull_EitherParent(geno) == geno.father[3] = 0 \/ geno.mother[3] = 0

\* The null-hypothesis test of likelihood_ratio and update_info: neither
\* parent carries a dropout allele.
IsNull(geno) == geno.father[3] = 0 /\ geno.mother[3] = 0

\* em.ped_update(param[-1], calls, disp, parental_gt)
em_ped_update(snap, o) ==
    IF o.raises \/ ~IsNum(snap["lambda"])
    THEN Raise("Exception")
    ELSE Ok([lambda |-> VAdd(snap["lambda"], o.dlam),
             fail |-> o.fail,
             loglik |-> o.loglik])

\* PedMarker.__init__
PedMarker_init(cs, dcfg) ==
    LET dp == SumDP(cs)
        missing == Missing(cs)
        lambda0 == IF dp > 0 THEN VDiv(IntV(dp), IntV(Len(cs) - missing)) ELSE None
        fail == ~(dp > 0)
    IN [disp |-> IF dp > 0
                 THEN VAdd(VMul(dcfg.slope, lambda0), dcfg.intercept)
                 ELSE None,
        param |-> [gt \in trio_gt |->
                     << [lambda |-> lambda0, fail |-> fail, loglik |-> None] >>]]

PedMarker_check_convergence_StrictTol(p, lamb_tol) ==
    IF Last(p).fail THEN TRUE
    ELSE IF Len(p) > 1
    THEN LET lamb_diff == VAbs(VSub(p[Len(p)]["lambda"], p[Len(p) - 1]["lambda"]))
         IN VLt(lamb_diff, lamb_tol)
    ELSE FALSE

\* PedMarker.check_convergence(param, lamb_tol)
PedMarker_check_convergence(p, lamb_tol) ==
    IF Last(p).fail THEN TRUE
    ELSE IF Len(p) > 1
    THEN LET lamb_diff == VAbs(VSub(p[Len(p)]["lambda"], p[Len(p) - 1]["lambda"]))
         IN ~VLt(lamb_tol, lamb_diff)
    ELSE FALSE

PedMarker_update_param_NoTruncation(p, o) ==
    LET r == em_ped_update(Last(p), o)
    IN IF r.exc = "none" THEN r.v ELSE [Last(p) EXCEPT !.fail = TRUE]

\* PedMarker.update_param(param, parental_gt)
PedMarker_update_param(p, o) ==
    LET r == em_ped_update(Last(p), o)
        param_new == IF r.exc = "none" THEN r.v ELSE [Last(p) EXCEPT !.fail = TRUE]
    IN IF param_new.loglik = NegInf
       THEN [param_new EXCEPT !.fail = TRUE]
       ELSE param_new

\* Python 2 orders None below every number.
PyLt(a, b) ==
    IF a = None THEN b # None
    ELSE IF b = None THEN FALSE
    ELSE IF a.k = "ninf" THEN b.k # "ninf"
    ELSE IF b.k = "ninf" THEN FALSE
    ELSE VLt(a, b)

\* max() of the final log-likelihoods of a set of tracks.
MaxLoglik(pm, gts) ==
    LET lls == {Last(pm[g]).loglik : g \in gts}
    IN CHOOSE m \in lls : \A x \in lls : ~PyLt(m, x)

\* The divisors of the two mixture sums in likelihood_ratio.
H0_DIVISOR == 9
H1_DIVISOR == 27

\* math.e ** x underflows to 0.0 below about -745.
EXP_UNDERFLOW == Flt(-745, 1)

\* Whether math.e ** (loglik - maxlik) is 0.0, for a finite maxlik.
ExpIsZero(ll, maxlik) ==
    ll.k = "ninf" \/ VLt(FSub(ll, maxlik), EXP_UNDERFLOW)

Mixture_Undivided(pm, gts, maxlik, div) ==
    LET live == {g \in gts : ~ExpIsZero(Last(pm[g]).loglik, maxlik)}
        xs == {FSub(Last(pm[g]).loglik, maxlik) : g \in live}
    IN [x \in xs |->
          Flt(Cardinality({g \in live : FSub(Last(pm[g]).loglik, maxlik) = x}), 1)]

\* The mixture sum of likelihood_ratio over the tracks gts, each term divided
\* by div: the coefficient of e ** x, for every exponent x = loglik - maxlik
\* that does not underflow.
Mixture(pm, gts, maxlik, div) ==
    LET live == {g \in gts : ~ExpIsZero(Last(pm[g]).loglik, maxlik)}
        xs == {FSub(Last(pm[g]).loglik, maxlik) : g \in live}
    IN [x \in xs |->
          Flt(Cardinality({g \in live : FSub(Last(pm[g]).loglik, maxlik) = x}), div)]

\* PedMarker.likelihood_ratio(): None - x raises TypeError, math.log(0.0)
\* raises ValueError, and neither is caught.  -inf - -inf is nan, which
\* math.e ** and math.log pass on.  Sums of e ** x for distinct x are equal
\* exactly when their coefficients are, so the ratio is 0.0 exactly then;
\* any other ratio is kept as the pair of sums.
PedMarker_likelihood_ratio(pm) ==
    LET maxlik == MaxLoglik(pm, DOMAIN pm)
        h0_lik == Mixture(pm, {g \in DOMAIN pm : IsNull(g)}, maxlik, H0_DIVISOR)
        h1_lik == Mixture(pm, {g \in DOMAIN pm : ~IsNull(g)}, maxlik, H1_DIVISOR)
    IN IF \E g \in DOMAIN pm : Last(pm[g]).loglik = None THEN Raise("TypeError")
       ELSE IF maxlik.k = "ninf" THEN Ok(NaN)
       ELSE IF DOMAIN h0_lik = {} \/ DOMAIN h1_lik = {} THEN Raise("ValueError")
       ELSE IF h0_lik = h1_lik THEN Ok(Flt(0, 1))
       ELSE Ok([k |-> "lnratio", n |-> 0, d |-> 1, h0 |-> h0_lik, h1 |-> h1_lik])

\* The tracks update_info may pick for a hypothesis: max() by final loglik.
MostLikely(pm, gts) ==
    {g \in gts : \A x \in gts : ~PyLt(Last(pm[g]).loglik, Last(pm[x]).loglik)}

StrV(s) == [k |-> "str", n |-> 0, d |-> 1, s |-> s]

\* PedMarker.update_info(), for the parental genotypes gtH0 and gtH1 picked.
PedMarker_update_info(inf, pm, lr, gtH0, gtH1) ==
    LET new == [DLR |-> lr,
                ParentsH1 |-> StrV(<<GT_FORMATTED[gtH1.father], GT_FORMATTED[gtH1.mother]>>),
                ParentsH0 |-> StrV(<<GT_FORMATTED[gtH0.father], GT_FORMATTED[gtH0.mother]>>),
                LambdaH1 |-> Last(pm[gtH1])["lambda"],
                LambdaH0 |-> Last(pm[gtH0])["lambda"],
                IterationH1 |-> IntV(Len(pm[gtH1])),
                IterationH0 |-> IntV(Len(pm[gtH0])),
                EMFailH1 |-> BoolV(Last(pm[gtH1]).fail),
                EMFailH0 |-> BoolV(Last(pm[gtH0]).fail)]
    IN [id \in DOMAIN inf \cup DOMAIN new |->
          IF id \in DOMAIN new THEN new[id] ELSE inf[id]]

(* ------------------------- inputs of the model ------------------------- *)
Samples == <<"s1", "s2">>
Depths == {0, 5}

\* Call lists: every sample with a depth, with or without PL.
CallLists ==
    {[i \in 1..Len(Samples) |-> [sample |-> Samples[i], DP |-> dp[i], PL |-> pl[i]]] :
        dp \in [1..Len(Samples) -> Depths], pl \in [1..Len(Samples) -> BOOLEAN]}

\* Ten depth-only samples of total depth 50, one of them without a read.
TenSamples == <<"t1", "t2", "t3", "t4", "t5", "t6", "t7", "t8", "t9", "t10">>
TenSampleCalls ==
    [i \in 1..Len(TenSamples) |->
        [sample |-> TenSamples[i],
         DP |-> IF i = 10 THEN 0 ELSE IF i <= 5 THEN 6 ELSE 5,
         PL |-> FALSE]]

AFs == {None, Flt(1, 2), IntV(1)}

\* Reader.__init__'s defaults disp_slope=0.0, disp_intercept=2.5, and another.
DispCfgs == {[slope |-> Flt(0, 1), intercept |-> Flt(5, 2)],
             [slope |-> Flt(1, 2), intercept |-> IntV(1)]}

\* check_convergence's default tolerances.
DefaultTol == [phi_tol |-> Flt(1, 1000), lamb_tol |-> Flt(1, 10),
               delta_tol |-> Flt(5, 1000)]
PedDefaultTol == Flt(1, 4)

\* Tolerance configurations a caller may pass.
TolConfigs ==
    { DefaultTol,
      [phi_tol |-> IntV(0), lamb_tol |-> IntV(0), delta_tol |-> IntV(0)],
      [phi_tol |-> IntV(100), lamb_tol |-> IntV(100), delta_tol |-> IntV(100)],
      [phi_tol |-> IntV(-1), lamb_tol |-> IntV(-1), delta_tol |-> IntV(-1)] }

\* One alternative-subset track may behave unlike the rest of its subset.
SpecialGT == [father |-> <<1, 0, 1>>, mother |-> <<2, 0, 0>>]

PedPlans ==
    {[gt \in trio_gt |->
        IF gt = SpecialGT THEN sp ELSE IF IsNull(gt) THEN s0 ELSE s1] :
        s0 \in PedScripts, s1 \in PedScripts,
        sp \in {<<StepRaise>>, <<PedBig(NegInf)>>, <<PedSmall(Flt(-1, 1))>>,
                <<PedFail>>}}

Tracks == {"H1", "H0"}
TrackIdx(t) == IF t = "H1" THEN 1 ELSE 2

NoCall == [by |-> "none", idx |-> 0, raised |-> FALSE, snap |-> None, before |-> <<>>]

(* --------------------------- the state machine ------------------------- *)
\* No pileup is being computed.
PileupIdle ==
    /\ pin = [reads |-> [column |-> FALSE, reads |-> <<>>], ref |-> "", alt |-> ""]
    /\ pout = None

\* No Reader is at work.
ReaderIdle ==
    /\ ped = None /\ norm = None /\ alignments = {} /\ dpmode = FALSE
    /\ family = None /\ normfactors = None /\ rmarker = None /\ rpc = "idle"

InitCommon ==
    /\ PileupIdle /\ ReaderIdle
    /\ lik_ratio = None
    /\ info = [id \in {"InsMed", "InsMAD"} |-> None]
    /\ record = <<>>
    /\ solverCalls = 0
    /\ pc = "em"
    /\ exc = "none"
    /\ ret = NoCall

InitMarker ==
    /\ mode = "marker"
    /\ calls \in CallLists \cup {TenSampleCalls}
    /\ af \in AFs
    /\ dispcfg \in DispCfgs
    /\ solver \in [Tracks -> MarkerScripts]
    /\ disp = Marker_init(calls, af, dispcfg).disp
    /\ param = Marker_init(calls, af, dispcfg).param
    /\ InitCommon

InitPed ==
    /\ mode = "ped"
    /\ calls \in {c \in CallLists : \A i \in 1..Len(c) : ~c[i].PL}
    /\ af = None
    /\ dispcfg = [slope |-> Flt(0, 1), intercept |-> Flt(5, 2)]
    /\ solver \in PedPlans
    /\ disp = PedMarker_init(calls, dispcfg).disp
    /\ param = PedMarker_init(calls, dispcfg).param
    /\ InitCommon

Init == InitMarker \/ InitPed

\* The EM loop's test on a track: terminal, or the iteration cap is reached.
MarkerDone(t) ==
    Marker_check_convergence(param[t], DefaultTol) \/ Len(param[t]) >= MaxIter
PedDone(gt) ==
    PedMarker_check_convergence(param[gt], PedDefaultTol) \/ Len(param[gt]) >= MaxIter

\* One iteration of the unrelated-sample EM loop on track t:
\*   while not marker.check_convergence(param): param.append(marker.update_param(param))
EMStep ==
    /\ mode = "marker" /\ pc = "em"
    /\ \E t \in Tracks :
         /\ ~MarkerDone(t)
         /\ LET o == Outcome(solver[t], Len(param[t]))
                new == Marker_update_param(param[t], o)
            IN /\ param' = [param EXCEPT ![t] = Append(@, new)]
               /\ ret' = [by |-> "loop", idx |-> TrackIdx(t),
                          raised |-> em_update(Last(param[t]), o).exc # "none",
                          snap |-> new, before |-> param[t]]
    /\ solverCalls' = solverCalls + 1
    /\ UNCHANGED <<mode, solver, af, dispcfg, calls, disp, lik_ratio, info,
                   record, pc, exc, pvars, rvars>>

\* The index of the first pedigree track the loop has not finished.
PedCursor ==
    IF \A i \in DOMAIN TrioOrder : PedDone(TrioOrder[i]) THEN 0
    ELSE CHOOSE i \in DOMAIN TrioOrder :
           /\ ~PedDone(TrioOrder[i])
           /\ \A j \in 1..(i - 1) : PedDone(TrioOrder[j])

\* One iteration of the pedigree EM loop, the tracks taken in order.
PedEMStep ==
    /\ mode = "ped" /\ pc = "em"
    /\ PedCursor # 0
    /\ LET gt == TrioOrder[PedCursor]
           o == Outcome(solver[gt], Len(param[gt]))
           new == PedMarker_update_param(param[gt], o)
       IN /\ param' = [param EXCEPT ![gt] = Append(@, new)]
          /\ ret' = [by |-> "loop", idx |-> PedCursor,
                     raised |-> em_ped_update(Last(param[gt]), o).exc # "none",
                     snap |-> new, before |-> param[gt]]
    /\ solverCalls' = solverCalls + 1
    /\ UNCHANGED <<mode, solver, af, dispcfg, calls, disp, lik_ratio, info,
                   record, pc, exc, pvars, rvars>>

\* marker.lik_ratio = marker.likelihood_ratio(), once both tracks are done.
LikelihoodRatio ==
    /\ mode = "marker" /\ pc = "em"
    /\ \A t \in Tracks : MarkerDone(t)
    /\ LET r == Marker_likelihood_ratio(param)
       IN IF r.exc = "none"
          THEN lik_ratio' = r.v /\ pc' = "lr" /\ exc' = exc
          ELSE lik_ratio' = lik_ratio /\ pc' = "crashed" /\ exc' = r.exc
    /\ UNCHANGED <<mode, solver, af, dispcfg, calls, disp, param, info, record,
                   solverCalls, ret, pvars, rvars>>

PedLikelihoodRatio ==
    /\ mode = "ped" /\ pc = "em"
    /\ PedCursor = 0
    /\ LET r == PedMarker_likelihood_ratio(param)
       IN IF r.exc = "none"
          THEN lik_ratio' = r.v /\ pc' = "lr" /\ exc' = exc
          ELSE lik_ratio' = lik_ratio /\ pc' = "crashed" /\ exc' = r.exc
    /\ UNCHANGED <<mode, solver, af, dispcfg, calls, disp, param, info, record,
                   solverCalls, ret, pvars, rvars>>

UpdateInfo ==
    /\ mode = "marker" /\ pc = "lr"
    /\ info' = Marker_update_info(info, param, lik_ratio)
    /\ pc' = "info"
    /\ UNCHANGED <<mode, solver, af, dispcfg, calls, disp, param, lik_ratio,
                   record, solverCalls, exc, ret, pvars, rvars>>

\* max() returns the first of several equally likely tracks in the
\* dictionary's order, which is arbitrary: any of them may be reported.
PedUpdateInfo ==
    /\ mode = "ped" /\ pc = "lr"
    /\ \E gtH0 \in MostLikely(param, {g \in trio_gt : IsNull(g)}) :
         \E gtH1 \in MostLikely(param, {g \in trio_gt : ~IsNull(g)}) :
           info' = PedMarker_update_info(info, param, lik_ratio, gtH0, gtH1)
    /\ pc' = "info"
    /\ UNCHANGED <<mode, solver, af, dispcfg, calls, disp, param, lik_ratio,
                   record, solverCalls, exc, ret, pvars, rvars>>

WriteRecord ==
    /\ pc = "info"
    /\ record' = Writer_write_record(info)
    /\ pc' = "written"
    /\ UNCHANGED <<mode, solver, af, dispcfg, calls, disp, param, lik_ratio,
                   info, solverCalls, exc, ret, pvars, rvars>>

Next ==
    \/ EMStep
    \/ PedEMStep
    \/ LikelihoodRatio
    \/ PedLikelihoodRatio
    \/ UpdateInfo
    \/ PedUpdateInfo
    \/ WriteRecord

Spec == Init /\ [][Next]_vars

\* A caller that does not consult check_convergence: update_param is called
\* on a track and its result appended, whatever the track's last snapshot.
FreeUpdate ==
    /\ mode = "marker" /\ pc = "em"
    /\ \E t \in Tracks :
         /\ Len(param[t]) < MaxIter
         /\ LET o == Outcome(solver[t], Len(param[t]))
                new == Marker_update_param(param[t], o)
            IN /\ param' = [param EXCEPT ![t] = Append(@, new)]
               /\ ret' = [by |-> "call", idx |-> TrackIdx(t),
                          raised |-> em_update(Last(param[t]), o).exc # "none",
                          snap |-> new, before |-> param[t]]
    /\ solverCalls' = solverCalls + 1
    /\ UNCHANGED <<mode, solver, af, dispcfg, calls, disp, lik_ratio, info,
                   record, pc, exc, pvars, rvars>>

\* The same on the first pedigree track.
PedFreeUpdate ==
    /\ mode = "ped" /\ pc = "em"
    /\ LET gt == TrioOrder[1]
           o == Outcome(solver[gt], Len(param[gt]))
           new == PedMarker_update_param(param[gt], o)
       IN /\ Len(param[gt]) < MaxIter
          /\ param' = [param EXCEPT ![gt] = Append(@, new)]
          /\ ret' = [by |-> "call", idx |-> 1,
                     raised |-> em_ped_update(Last(param[gt]), o).exc # "none",
                     snap |-> new, before |-> param[gt]]
    /\ solverCalls' = solverCalls + 1
    /\ UNCHANGED <<mode, solver, af, dispcfg, calls, disp, lik_ratio, info,
                   record, pc, exc, pvars, rvars>>

NextFree == Next \/ FreeUpdate \/ PedFreeUpdate

\* The free caller is run on the default configuration, and on pedigree
\* solvers that treat the two subsets alike.
InitFree ==
    /\ Init
    /\ af = None
    /\ dispcfg = [slope |-> Flt(0, 1), intercept |-> Flt(5, 2)]
    /\ mode = "ped" =>
         solver[[father |-> <<2, 0, 0>>, mother |-> <<2, 0, 0>>]]
           = solver[[father |-> <<0, 0, 2>>, mother |-> <<0, 0, 2>>]]

SpecFree == InitFree /\ [][NextFree]_vars


(* ----------------------- _PileupData, CallData ------------------------ *)
Bases == {"A", "C", "G", "T"}

\* Keyed by [actual base][read base]; the diagonal is None.
CONFUSION_MATRIX ==
    [a \in Bases |-> [b \in Bases |->
        IF a = b THEN None
        ELSE IF a = "A"
        THEN (IF b = "C" THEN Flt(577, 1000)
              ELSE IF b = "G" THEN Flt(171, 1000) ELSE Flt(252, 1000))
        ELSE IF a = "C"
        THEN (IF b = "A" THEN Flt(349, 1000)
              ELSE IF b = "G" THEN Flt(113, 1000) ELSE Flt(539, 1000))
        ELSE IF a = "G"
        THEN (IF b = "A" THEN Flt(319, 1000)
              ELSE IF b = "C" THEN Flt(51, 1000) ELSE Flt(630, 1000))
        ELSE (IF b = "A" THEN Flt(458, 1000)
              ELSE IF b = "C" THEN Flt(221, 1000) ELSE Flt(320, 1000))]]

\* Defaults of _PileupData.__init__.
MAXCOVG == 250
OFFSET == 33

RECURSIVE Pow10(_)
Pow10(e) == IF e = 0 THEN 1 ELSE 10 * Pow10(e - 1)

\* epsilon = 10**(-(ord(qual) - offset) / 10.0), for the quality bytes
\* offset + 10*e (the only ones the pileups below hold), where it is 10^-e.
Epsilon(qual, offset) == Flt(1, Pow10((qual - offset) \div 10))

\* A python list.
PyList(items) == [k |-> "list", items |-> items]

\* math.log(x, 10) raises ValueError unless x > 0.
LogDefined(x) == VLt(Zero, x)

\* Pr(ref is true | base is miscalled) and Pr(alt is true | base is
\* miscalled), as calculate_pl reads them from the table.
PrRef(ref, alt) == CONFUSION_MATRIX[ref][alt]
PrAlt_ActualRef(ref, alt) == CONFUSION_MATRIX[ref][alt]
PrAlt(ref, alt) == CONFUSION_MATRIX[alt][ref]

\* What one read adds to (homref_lik, het_lik, homnonref_lik): the three
\* arguments of math.log(., 10), <<>> for a read that matches neither allele,
\* or the exception the loop body raises.
ReadTerms(read, ref, alt, offset) ==
    IF ref \notin Bases \/ alt \notin Bases THEN Raise("KeyError")
    ELSE
    LET pr_ref == PrRef(ref, alt)
        pr_alt == PrAlt(ref, alt)
        epsilon == Epsilon(read.qual, offset)
        one == IntV(1)
        match == VSub(one, epsilon)
        het(pr) == VDiv(VSub(one, VMul(epsilon, VAdd(one, pr))), Flt(2, 1))
        miscall(pr) == VMul(epsilon, pr)
    IN IF read.base = ref
       THEN (IF ~LogDefined(match) THEN Raise("ValueError")
             ELSE IF pr_alt = None THEN Raise("TypeError")
             ELSE IF ~LogDefined(het(pr_alt)) THEN Raise("ValueError")
             ELSE Ok(<<match, het(pr_alt), miscall(pr_alt)>>))
       ELSE IF read.base = alt
       THEN (IF pr_ref = None THEN Raise("TypeError")
             ELSE IF ~LogDefined(het(pr_ref)) THEN Raise("ValueError")
             ELSE IF ~LogDefined(match) THEN Raise("ValueError")
             ELSE Ok(<<miscall(pr_ref), het(pr_ref), match>>))
       ELSE Ok(<<>>)

\* The loop of calculate_pl over reads[i..]: each sum of logs is kept as the
\* product of the arguments, lik[j] = 10^(the j-th sum).
RECURSIVE SumLik(_, _, _, _, _, _)
SumLik(reads, i, ref, alt, offset, lik) ==
    IF i > Len(reads) THEN Ok(lik)
    ELSE LET t == ReadTerms(reads[i], ref, alt, offset)
         IN IF t.exc # "none" THEN Raise(t.exc)
            ELSE IF t.v = <<>> THEN SumLik(reads, i + 1, ref, alt, offset, lik)
            ELSE SumLik(reads, i + 1, ref, alt, offset,
                        [j \in 1..3 |-> VMul(lik[j], t.v[j])])

\* -10 * (l - maxlik) for l = log10(p) and maxlik = log10(pmax): a float that
\* is 0.0 when p = pmax and is kept as the ratio p/pmax otherwise.
Phred(p, pmax) ==
    IF p = pmax THEN Zero
    ELSE [k |-> "phred", n |-> VDiv(p, pmax).n, d |-> VDiv(p, pmax).d]

MaxOf3_First(lik) == lik[1]

\* max of the three sums (the logarithm is increasing).
MaxOf3(lik) == VMax(VMax(lik[1], lik[2]), lik[3])

\* sum(lik) < 0: no sum is positive (no argument of a logarithm exceeds 1),
\* so the total is negative exactly when one of the sums is.
SumNegative(lik) == \E j \in 1..3 : VLt(lik[j], IntV(1))

calculate_pl(reads, ref, alt, offset) ==
    LET r == SumLik(reads, 1, ref, alt, offset, <<Flt(1, 1), Flt(1, 1), Flt(1, 1)>>)
    IN IF r.exc # "none" THEN Raise(r.exc)
       ELSE IF SumNegative(r.v)
       THEN Ok(PyList([j \in 1..3 |-> Phred(r.v[j], MaxOf3(r.v))]))
       ELSE Ok(None)

\* Insertion sort, for the median.
RECURSIVE Insert(_, _)
Insert(sorted, x) ==
    IF sorted = <<>> THEN <<x>>
    ELSE IF VLe(x, Head(sorted)) THEN <<x>> \o sorted
    ELSE <<Head(sorted)>> \o Insert(Tail(sorted), x)

RECURSIVE Sorted(_)
Sorted(s) == IF s = <<>> THEN <<>> ELSE Insert(Sorted(Tail(s)), Head(s))

\* numpy.median of a non-empty list of numbers: a float.
median(s) ==
    LET t == Sorted(s)
        h == Len(t) \div 2
    IN IF Len(t) % 2 = 1 THEN VDiv(t[h + 1], IntV(1))
       ELSE VDiv(VAdd(t[h], t[h + 1]), IntV(2))

\* _PileupData.extract_tags: the Z0 tags of the reads that carry one.
RECURSIVE extract_tags(_)
extract_tags(reads) ==
    IF reads = <<>> THEN <<>>
    ELSE (IF Head(reads).Z0 = None THEN <<>> ELSE <<Head(reads).Z0>>)
         \o extract_tags(Tail(reads))

RECURSIVE MappedReads(_)
MappedReads(rs) ==
    IF rs = <<>> THEN <<>>
    ELSE (IF Head(rs).mapq > 0 THEN <<Head(rs)>> ELSE <<>>) \o MappedReads(Tail(rs))

\* self.reads: the mapped reads of the column, at most maxcovg of them; no
\* read when the pileup has no column (pileup.next() raises).
PileupReads(pileup, maxcovg) ==
    IF ~pileup.column THEN <<>>
    ELSE LET m == MappedReads(pileup.reads)
         IN SubSeq(m, 1, IF Len(m) < maxcovg THEN Len(m) ELSE maxcovg)

\* _PileupData.__init__: self.data.  alt is what str(alt) gives.  The restriction-site tags (self_rs, mate_rs) are left out.
PileupData(pileup, ref, alt, maxcovg, offset) ==
    LET reads == PileupReads(pileup, maxcovg)
        pl == calculate_pl(reads, ref, alt, offset)
        inserts == extract_tags(reads)
    IN [DP |-> IntV(Len(reads)),
        PL |-> IF pl.exc # "none" THEN None ELSE pl.v,
        inserts |-> inserts,
        INS |-> IF inserts # <<>> THEN median(inserts) ELSE None]

\* int(x) of a float: truncation; of a Phred value, kept as written.
PyInt(v) ==
    IF v.k = "phred" THEN [k |-> "int(phred)", n |-> v.n, d |-> v.d]
    ELSE IF v.n < 0 THEN IntV(-((-v.n) \div v.d))
    ELSE IntV(v.n \div v.d)

\* CallData.__init__(sample, **data): data holds DP, PL and INS, each NoKey
\* when the keyword is not passed, and inserts, <<>> when it is not passed.
\* NF is the default: Reader.next overwrites it in every call it builds.
NoKey == [k |-> "nokey", n |-> 0, d |-> 1]

CallData(sample, data) ==
    LET dp == IF data.DP = NoKey THEN IntV(0) ELSE data.DP
        pl == IF data.PL = NoKey THEN None ELSE data.PL
    IN [sample |-> sample,
        DP |-> IF dp = None THEN IntV(0) ELSE dp,
        PL |-> IF pl # None /\ pl.items # <<>>
               THEN PyList([i \in 1..Len(pl.items) |-> PyInt(pl.items[i])])
               ELSE None,
        NF |-> Flt(1, 1),
        inserts |-> data.inserts,
        INS |-> IF data.INS = NoKey THEN None ELSE data.INS,
        is_father |-> FALSE, is_mother |-> FALSE, is_child |-> FALSE]

(* ------------------- the pileup of one sample's reads ------------------ *)
\* No marker is being tested.
MarkerIdle ==
    /\ mode = "idle" /\ solver = <<>> /\ af = None /\ calls = <<>>
    /\ dispcfg = [slope |-> Flt(0, 1), intercept |-> Flt(5, 2)]
    /\ disp = None /\ param = <<>> /\ lik_ratio = None
    /\ info = [id \in {"InsMed", "InsMAD"} |-> None]
    /\ record = <<>> /\ solverCalls = 0 /\ pc = "idle" /\ exc = "none"
    /\ ret = NoCall

\* A read of the column: the base and the quality byte at the position, the
\* mapping quality, and the Z0 tag (the insert size) or None.
Read(base, qual, mapq, z0) == [base |-> base, qual |-> qual, mapq |-> mapq, Z0 |-> z0]

\* The pileups: no column, no read, one read of each base and quality (byte
\* 33 is epsilon = 1, 43 is 0.1, 53 is 0.01), an unmapped read, and pairs.
Column(reads) == [column |-> TRUE, reads |-> reads]
NoColumn == [column |-> FALSE, reads |-> <<>>]

Pileups ==
    {NoColumn, Column(<<>>)}
    \cup {Column(<<Read(b, q, 30, None)>>) : b \in Bases, q \in {33, 43, 53}}
    \cup {Column(<<Read("A", 53, 0, None)>>), Column(<<Read("A", 53, 30, IntV(100))>>)}
    \cup {Column(<<Read("A", 43, 30, IntV(100)), Read(b, 43, m, IntV(201))>>) :
              b \in {"A", "C"}, m \in {0, 30}}
    \cup {Column(<<Read("G", 43, 30, None), Read("A", 43, 30, IntV(150))>>)}

\* REF, and str(ALT[0]): a base, or an allele that is not a single base.
Alleles == Bases \cup {"CT"}

InitPileup ==
    /\ MarkerIdle /\ ReaderIdle
    /\ pin \in [reads : Pileups, ref : Alleles, alt : Alleles]
    /\ pout = None

\* _Samfile.pileup: the data of the pileup, and the CallData made of it.
Pileup ==
    /\ pout = None
    /\ \E data \in {PileupData(pin.reads, pin.ref, pin.alt, MAXCOVG, OFFSET)},
          lik \in {SumLik(PileupReads(pin.reads, MAXCOVG), 1, pin.ref, pin.alt,
                          OFFSET, <<Flt(1, 1), Flt(1, 1), Flt(1, 1)>>)} :
        pout' = [lik |-> lik, data |-> data, call |-> CallData("s1", data)]
    /\ UNCHANGED <<mvars, pin, rvars>>

SpecPileup == InitPileup /\ [][Pileup]_vars

(* ------------------------------- Reader -------------------------------- *)
\* Reader.samples: the samples that go into the analysis.
RSamples == <<"s1", "s2", "s3">>
InSamples(x) == \E i \in 1..Len(RSamples) : RSamples[i] = x

\* A line of the PED file (the family id, sex and phenotype are not used).
PedLine(indiv_id, father, mother) ==
    [indiv_id |-> indiv_id, father |-> father, mother |-> mother]

\* offspring[(father, mother)] after the loop over the first n lines: the
\* children of the pair that are in the samples list, in file order.
RECURSIVE Offspring(_, _, _)
Offspring(lines, n, key) ==
    IF n = 0 THEN <<>>
    ELSE Offspring(lines, n - 1, key)
         \o (IF /\ InSamples(lines[n].indiv_id)
                /\ <<lines[n].father, lines[n].mother>> = key
             THEN <<lines[n].indiv_id>> ELSE <<>>)

\* The keys of the offspring dict.
OffspringKeys(lines) ==
    {<<lines[n].father, lines[n].mother>> :
        n \in {m \in 1..Len(lines) : InSamples(lines[m].indiv_id)}}

\* max(offspring, key=lambda x: len(x)): x is a (father, mother) tuple, so
\* every key has len 2 and max returns the first key the dict iterates over,
\* which the hash order decides: any key.
MaxByKeyLen(lines) == OffspringKeys(lines)

\* Reader.parse_ped: the families it can return; none when it raises (no file,
\* or no line of a sample: max of an empty dict).
parse_ped(pedfile) ==
    IF ~pedfile.given THEN {}
    ELSE {[father |-> key[1], mother |-> key[2],
           children |-> Offspring(pedfile.lines, Len(pedfile.lines), key)] :
             key \in MaxByKeyLen(pedfile.lines)}

\* The text of an insert field of the normalization file: "NA", the digits
\* of an integer, or something else.
NAField == [k |-> "text", n |-> 0, d |-> 1, s |-> "NA"]
IntField(i) == [k |-> "text", n |-> i, d |-> 1, s |-> "digits"]
BadField == [k |-> "text", n |-> 0, d |-> 1, s |-> "x"]

\* insert = None if insert == "NA" else int(insert)
InsertKey(field) ==
    IF field.s = "NA" THEN Ok(None)
    ELSE IF field.s = "digits" THEN Ok(IntV(field.n))
    ELSE Raise("ValueError")

Min(a, b) == IF a < b THEN a ELSE b

\* The (row, column) pairs that parse_norm stores under key (sample, insert).
NormCells(nfile, key) ==
    {rc \in (1..Len(nfile.rows)) \X (1..Len(nfile.samples)) :
        /\ rc[2] <= Len(nfile.rows[rc[1]].nf)
        /\ nfile.samples[rc[2]] = key[1]
        /\ InsertKey(nfile.rows[rc[1]].insert).v = key[2]}

\* The last of the cells: a later assignment to a key replaces an earlier one.
LastCell(cells) ==
    CHOOSE rc \in cells : \A o \in cells :
        o[1] < rc[1] \/ (o[1] = rc[1] /\ o[2] <= rc[2])

\* Reader.parse_norm: the hash keyed by (sample, insert), or the exception.
\* It returns None when the header's samples are not Reader.samples.
parse_norm(nfile) ==
    IF ~nfile.given THEN Raise("IOError")
    ELSE IF \E r \in 1..Len(nfile.rows) : InsertKey(nfile.rows[r].insert).exc # "none"
    THEN Raise("ValueError")
    ELSE IF {nfile.samples[i] : i \in 1..Len(nfile.samples)}
             # {RSamples[i] : i \in 1..Len(RSamples)}
    THEN Ok(None)
    ELSE LET keys == UNION {{<<nfile.samples[c], InsertKey(nfile.rows[r].insert).v>> :
                                 c \in 1..Min(Len(nfile.samples), Len(nfile.rows[r].nf))} :
                             r \in 1..Len(nfile.rows)}
         IN Ok([k |-> "dict",
                map |-> [key \in keys |->
                    LET rc == LastCell(NormCells(nfile, key))
                    IN nfile.rows[rc[1]].nf[rc[2]]]])

\* The data of a sample in the VCF record: absent when the VCF does not have
\* the sample, else the DP, PL and INS fields (NoKey for a field the record's
\* FORMAT does not list, None for a field written as '.').
VcfAbsent == [present |-> FALSE, DP |-> NoKey, PL |-> NoKey, INS |-> NoKey, inserts |-> <<>>]
VcfData(dp, pl, ins) == [present |-> TRUE, DP |-> dp, PL |-> pl, INS |-> ins, inserts |-> <<>>]

\* The call of one sample in Reader.next, before the normalization factor:
\* from the pileup of the sample's bam file, else from the VCF, else the
\* exception.  inp is the sample's pileup (bamError when bam.pileup raises)
\* and its VCF data.
ReadCall(sample, inp, ref, alt) ==
    IF sample \in alignments /\ ~inp.bamError
    THEN Ok(CallData(sample, PileupData(inp.pileup, ref, alt, MAXCOVG, OFFSET)))
    ELSE IF inp.vcf.present THEN Ok(CallData(sample, inp.vcf))
    ELSE Raise("Exception")

\* self.normfactors[(sample, int(call.INS))]
NormLookup(sample, ins) ==
    IF ins = None THEN Raise("TypeError")
    ELSE IF normfactors = None THEN Raise("TypeError")
    ELSE IF <<sample, PyInt(ins)>> \notin DOMAIN normfactors.map THEN Raise("KeyError")
    ELSE Ok(normfactors.map[<<sample, PyInt(ins)>>])

\* try: call.NF = self.normfactors[...] except: call.NF = 1.0
WithNF(call) ==
    LET r == NormLookup(call.sample, call.INS)
    IN [call EXCEPT !.NF = IF r.exc = "none" THEN r.v ELSE Flt(1, 1)]

\* if self.dpmode: call.PL = None
WithDpMode(call) == IF dpmode THEN [call EXCEPT !.PL = None] ELSE call

WithFamily_EveryRole(call) ==
    IF family = None THEN call
    ELSE [call EXCEPT
            !.is_father = (call.sample = family.father),
            !.is_mother = (call.sample = family.mother),
            !.is_child = \E i \in 1..Len(family.children) :
                             family.children[i] = call.sample]

\* The family flags of a call: the first of father, mother, child that fits.
WithFamily(call) ==
    IF family = None THEN call
    ELSE IF call.sample = family.father THEN [call EXCEPT !.is_father = TRUE]
    ELSE IF call.sample = family.mother THEN [call EXCEPT !.is_mother = TRUE]
    ELSE IF \E i \in 1..Len(family.children) : family.children[i] = call.sample
    THEN [call EXCEPT !.is_child = TRUE]
    ELSE call

RECURSIVE AllInserts(_)
AllInserts(cs) == IF cs = <<>> THEN <<>> ELSE Head(cs).inserts \o AllInserts(Tail(cs))

\* The INFO tags InsMed and InsMAD of the record's calls.
InsertInfo(cs) ==
    LET inserts == AllInserts(cs)
        ins_med == median(inserts)
    IN IF inserts = <<>> THEN [InsMed |-> None, InsMAD |-> None]
       ELSE [InsMed |-> ins_med,
             InsMAD |-> median([i \in 1..Len(inserts) |->
                                   VAbs(VSub(inserts[i], ins_med))])]

\* The PED files: none; two families of two and of one sample children, in
\* both orders; a trio of the samples; one sample as father and as mother,
\* and a child that is no sample; a father who is also a child of the pair;
\* and a family without a sample child.
NoPed == [given |-> FALSE, lines |-> <<>>]
PedFile(lines) == [given |-> TRUE, lines |-> lines]
PedFiles ==
    {NoPed,
     PedFile(<<PedLine("s1", "f1", "m1"), PedLine("s2", "f1", "m1"),
               PedLine("s3", "f2", "m2")>>),
     PedFile(<<PedLine("s1", "f1", "m1"), PedLine("s2", "f2", "m2"),
               PedLine("s3", "f2", "m2")>>),
     PedFile(<<PedLine("s1", "s2", "s3"), PedLine("s2", "0", "0"),
               PedLine("s3", "0", "0")>>),
     PedFile(<<PedLine("s1", "s2", "s2"), PedLine("x9", "s2", "s2")>>),
     PedFile(<<PedLine("s1", "s2", "s3"), PedLine("s2", "s2", "s3")>>),
     PedFile(<<PedLine("x8", "f1", "m1")>>)}

\* The normalization files: none; an NA row; a row of insert size 100 and an
\* NA row; a header that lacks a sample; an insert field that is no integer.
NormRow(insert, nf) == [insert |-> insert, nf |-> nf]
NoNorm == [given |-> FALSE, samples |-> <<>>, rows |-> <<>>]
NormFile(samples, rows) == [given |-> TRUE, samples |-> samples, rows |-> rows]
NARow == NormRow(NAField, <<Flt(2, 1), Flt(2, 1), Flt(2, 1)>>)
NormFiles ==
    {NoNorm,
     NormFile(RSamples, <<NARow>>),
     NormFile(RSamples, <<NormRow(IntField(100), <<Flt(3, 2), Flt(1, 2), Flt(1, 1)>>),
                          NARow>>),
     NormFile(<<"s1", "s2">>, <<NARow>>),
     NormFile(RSamples, <<NormRow(BadField, <<Flt(1, 1), Flt(1, 1), Flt(1, 1)>>)>>)}

\* Which samples have a bam file in the bamlist.
BamLists == {{}, {"s1"}, {"s1", "s2", "s3"}}

\* What a record holds of one sample: its pileup and its VCF fields.
SampleInput(bamError, pileup, vcf) ==
    [bamError |-> bamError, pileup |-> pileup, vcf |-> vcf]
SampleInputs ==
    {SampleInput(FALSE, NoColumn, VcfAbsent),
     SampleInput(FALSE, Column(<<Read("A", 53, 30, None)>>),
                 VcfData(IntV(5), None, NoKey)),
     SampleInput(FALSE, Column(<<Read("A", 43, 30, IntV(100)), Read("C", 43, 30, IntV(201))>>),
                 VcfData(IntV(5), PyList(<<IntV(0), IntV(15), IntV(60)>>), IntV(100))),
     SampleInput(TRUE, NoColumn,
                 VcfData(IntV(0), PyList(<<IntV(0), IntV(0), IntV(0)>>), NoKey)),
     SampleInput(FALSE, Column(<<Read("G", 53, 30, IntV(100))>>),
                 VcfData(None, PyList(<<IntV(0), IntV(3), IntV(30)>>), NoKey)),
     SampleInput(TRUE, NoColumn, VcfData(NoKey, NoKey, NoKey))}

\* The state after Reader.__init__.
InitReader ==
    /\ MarkerIdle /\ PileupIdle
    /\ ped \in PedFiles
    /\ norm \in NormFiles
    /\ alignments \in BamLists
    /\ dpmode \in BOOLEAN
    /\ family \in IF parse_ped(ped) = {} THEN {None} ELSE parse_ped(ped)
    /\ normfactors = IF parse_norm(norm).exc # "none" THEN None ELSE parse_norm(norm).v
    /\ rmarker = None
    /\ rpc = "ready"

\* Reader.next() on a record with REF 'A', ALT 'C' and the samples' data inp.
ReaderNext ==
    /\ rpc = "ready"
    /\ \E inp \in [1..Len(RSamples) -> SampleInputs] :
       \E read \in {[i \in 1..Len(RSamples) |-> ReadCall(RSamples[i], inp[i], "A", "C")]} :
           IF \E i \in 1..Len(RSamples) : read[i].exc # "none"
           THEN rpc' = "failed" /\ rmarker' = None
           ELSE \E cs \in {[i \in 1..Len(RSamples) |->
                               WithFamily(WithDpMode(WithNF(read[i].v)))]} :
                /\ rpc' = "done"
                /\ rmarker' = [cls |-> IF family = None THEN "Marker" ELSE "PedMarker",
                               calls |-> cs,
                               info |-> InsertInfo(cs)]
    /\ UNCHANGED <<mvars, pvars, ped, norm, alignments, dpmode, family, normfactors>>

SpecReader == InitReader /\ [][ReaderNext]_vars

(* ============================== claims ================================ *)
\* check_convergence of the marker's class, on one track's history.
CheckConv(p, c) ==
    IF mode = "marker" THEN Marker_check_convergence(p, c)
    ELSE PedMarker_check_convergence(p, c.lamb_tol)

\* The parameter values of two snapshots agree (everything but fail).
SameValues(a, b) == [a EXCEPT !.fail = FALSE] = [b EXCEPT !.fail = FALSE]

\* C1 as stated: check_convergence (Marker and PedMarker) is false on every
\* history of exactly one snapshot, for every tolerance configuration, also
\* when that snapshot has fail = true.
C1_SingleSnapshotNeverConverged ==
    \A t \in DOMAIN param :
        Len(param[t]) = 1 => \A c \in TolConfigs : ~CheckConv(param[t], c)

\* C1 amended: on a history of exactly one snapshot check_convergence
\* returns that snapshot's fail flag, for every tolerance configuration:
\* false when the snapshot has not failed, true when it has.
C1_SingleSnapshotConvergedIffFailed ==
    \A t \in DOMAIN param :
        Len(param[t]) = 1 =>
            \A c \in TolConfigs : CheckConv(param[t], c) = param[t][1].fail

\* A marker whose H1 track still holds its one unfailed seed snapshot while
\* the loop has already extended H0.
C1_Witness ==
    /\ mode = "marker"
    /\ Len(param["H1"]) = 1 /\ ~param["H1"][1].fail
    /\ Len(param["H0"]) > 1

\* C2 as stated: in every history, every snapshot after the first failed one
\* has fail = true and the parameter values of the snapshot before the
\* failure, whatever the sequence of update_param calls.
C2_FailureIsPermanent ==
    \A t \in DOMAIN param :
        LET h == param[t]
        IN \A i \in 1..Len(h) :
             (h[i].fail /\ \A k \in 1..(i - 1) : ~h[k].fail) =>
                 \A j \in (i + 1)..Len(h) :
                     h[j].fail /\ (i > 1 => SameValues(h[j], h[i - 1]))

\* C2 amended: the EM loop never calls update_param on a track whose last
\* snapshot has failed, so in the loop no snapshot follows a failed one; and
\* a snapshot that update_param returns after a solver exception has
\* fail = true and the parameter values of the snapshot it was computed from.
C2_LoopStopsAtFailure ==
    /\ ret.by = "loop" => ~Last(ret.before).fail
    /\ (ret.by # "none" /\ ret.raised) =>
           ret.snap.fail /\ SameValues(ret.snap, Last(ret.before))

\* The loop's solver call raised on a track that had already moved.
C2_Witness ==
    /\ ret.by = "loop" /\ ret.raised
    /\ Len(ret.before) > 1
    /\ ret.snap.loglik # None

\* C3: Marker.likelihood_ratio never raises; it returns
\* -2 * (loglik of H0 - loglik of H1) when both are defined and None when
\* either is undefined.
C3_LikelihoodRatio ==
    mode = "marker" =>
        /\ pc # "crashed"
        /\ pc \in {"lr", "info", "written"} =>
             LET h0 == Last(param["H0"]).loglik
                 h1 == Last(param["H1"]).loglik
             IN IF h0 = None \/ h1 = None THEN lik_ratio = None
                ELSE IF IsNum(h0) /\ IsNum(h1)
                THEN lik_ratio = Flt(2 * (h1.n * h0.d - h0.n * h1.d), h0.d * h1.d)
                ELSE IF IsNum(h1) THEN lik_ratio = PosInf
                ELSE IF IsNum(h0) THEN lik_ratio = NegInf
                ELSE lik_ratio = NaN

\* The ratio was computed with H0's log-likelihood undefined and H1's defined.
C3_Witness ==
    /\ mode = "marker" /\ pc = "lr"
    /\ Last(param["H0"]).loglik = None
    /\ Last(param["H1"]).loglik # None
    /\ lik_ratio = None

\* C4: PedMarker.likelihood_ratio does not raise when final log-likelihoods
\* are undefined; the ratio is then undefined.
C4_UndefinedRatioNotCrash ==
    (mode = "ped" /\ \E g \in DOMAIN param : Last(param[g]).loglik = None) =>
        /\ pc # "crashed"
        /\ pc \in {"lr", "info", "written"} => lik_ratio = None

\* C5: the pedigree marker has one track for each of the 36 pairs of the six
\* genotypes (the allele-count triples summing to 2), and the null test of
\* likelihood_ratio and update_info splits them 9 to 27, the two divisors.
C5_GenotypeSpace ==
    mode = "ped" =>
        /\ DOMAIN GT_FORMATTED =
             {g \in (0..2) \X (0..2) \X (0..2) : g[1] + g[2] + g[3] = 2}
        /\ DOMAIN param = {[father |-> f, mother |-> m] :
                              f \in DOMAIN GT_FORMATTED, m \in DOMAIN GT_FORMATTED}
        /\ Cardinality(DOMAIN param) = 36
        /\ Cardinality({g \in DOMAIN param : IsNull(g)}) = 9
        /\ Cardinality({g \in DOMAIN param : ~IsNull(g)}) = 27
        /\ H0_DIVISOR = Cardinality({g \in DOMAIN param : IsNull(g)})
        /\ H1_DIVISOR = Cardinality({g \in DOMAIN param : ~IsNull(g)})

\* A pedigree marker whose ratio and INFO have been computed.
C5_Witness == mode = "ped" /\ pc = "info" /\ lik_ratio # None

\* C6: an unrelated-sample marker of total depth 0 has both tracks terminal
\* with fail = true from construction, no solver call is ever made,
\* update_info reports one iteration for each hypothesis, and the written
\* record has no DLR.
C6_ZeroDepthMarker ==
    (mode = "marker" /\ SumDP(calls) = 0) =>
        /\ \A t \in Tracks :
             /\ Len(param[t]) = 1
             /\ param[t][1].fail
             /\ Marker_check_convergence(param[t], DefaultTol)
        /\ solverCalls = 0
        /\ pc \in {"info", "written"} =>
             info["IterationH1"] = IntV(1) /\ info["IterationH0"] = IntV(1)
        /\ pc = "written" => "DLR" \notin DOMAIN record

\* A zero-depth marker whose record has been written.
C6_Witness == mode = "marker" /\ SumDP(calls) = 0 /\ pc = "written"

\* The pileup of C7's scenario has been computed: one read that matches
\* ref = 'A', alt = 'C', quality byte 53 (epsilon = 0.01).
C7_Scenario ==
    /\ pout # None
    /\ pin.ref = "A" /\ pin.alt = "C"
    /\ pin.reads.column /\ Len(pin.reads.reads) = 1
    /\ pin.reads.reads[1].base = "A"
    /\ pin.reads.reads[1].qual = 53
    /\ pin.reads.reads[1].mapq > 0

\* C7 (as stated): for one read equal to ref, ref = 'A', alt = 'C', quality
\* byte 53, calculate_pl adds log10(0.99) to hom-ref,
\* log10((1 - 0.01*(1 + 0.577))/2) to het and log10(0.01*0.577) to hom-alt.
C7_RefReadUses0577 ==
    C7_Scenario =>
        /\ pout.lik.exc = "none"
        /\ pout.lik.v = <<Flt(99, 100),
                          VDiv(VSub(IntV(1), VMul(Flt(1, 100), Flt(1577, 1000))), IntV(2)),
                          VMul(Flt(1, 100), Flt(577, 1000))>>

\* C7 (amended): in that scenario the miscall probability applied to the
\* ref-matching read is CONFUSION_MATRIX['C']['A'] = 0.349: the terms are
\* log10(0.99), log10((1 - 0.01*(1 + 0.349))/2) and log10(0.01*0.349).
C7_RefReadUses0349 ==
    C7_Scenario =>
        /\ pout.lik.exc = "none"
        /\ pout.lik.v = <<Flt(99, 100),
                          VDiv(VSub(IntV(1), VMul(Flt(1, 100), Flt(1349, 1000))), IntV(2)),
                          VMul(Flt(1, 100), Flt(349, 1000))>>

C7_Witness ==
    /\ C7_Scenario
    /\ pout.lik.exc = "none"
    /\ pout.lik.v[3] = Flt(349, 100000)
    /\ pout.data.DP = IntV(1)
    /\ pout.data.PL # None

\* The parent pairs with the largest number of children in the samples list.
LargestFamilies(lines) ==
    {key \in OffspringKeys(lines) :
        \A other \in OffspringKeys(lines) :
            Len(Offspring(lines, Len(lines), other))
                <= Len(Offspring(lines, Len(lines), key))}

\* C8: when the PED file names parent pairs with children in the samples
\* list, the family of the Reader is a pair with the largest number of such
\* children, together with exactly those children.
C8_LargestFamilyChosen ==
    (rpc # "idle" /\ ped.given /\ OffspringKeys(ped.lines) # {}) =>
        /\ family # None
        /\ <<family.father, family.mother>> \in LargestFamilies(ped.lines)
        /\ family.children =
               Offspring(ped.lines, Len(ped.lines), <<family.father, family.mother>>)

\* C9: a call without an insert size (INS is None) gets the factor stored
\* under (sample, "NA") when the table has one, and 1.0 only when it has not.
C9_NABucketUsed ==
    rpc = "done" =>
        \A i \in 1..Len(rmarker.calls) :
            LET call == rmarker.calls[i]
            IN call.INS = None =>
                IF normfactors # None /\ <<call.sample, None>> \in DOMAIN normfactors.map
                THEN call.NF = normfactors.map[<<call.sample, None>>]
                ELSE call.NF = Flt(1, 1)

\* C10: every call that Reader.next puts in the marker's call list has no PL
\* when its DP is 0.
C10_ZeroDepthNoPL ==
    rpc = "done" =>
        \A i \in 1..Len(rmarker.calls) :
            rmarker.calls[i].DP = IntV(0) => rmarker.calls[i].PL = None

\* A Phred value -10 * (l - maxlik) that is not negative: 0.0, or a ratio
\* 10^l / 10^maxlik below 1.
PhredNonNegative(v) ==
    v = Zero \/ (v.k = "phred" /\ 0 < v.n /\ v.n < v.d)

\* C11: a pileup of depth 0 has no PL; a PL that is present is the triple
\* -10 * (l - max(l)) of the three sums, whose entries are all >= 0 and one
\* of which is 0.
C11_PileupPL ==
    pout # None =>
        /\ pout.data.DP = IntV(0) => pout.data.PL = None
        /\ pout.data.PL # None =>
            /\ pout.lik.exc = "none"
            /\ Len(pout.data.PL.items) = 3
            /\ \E m \in 1..3 :
                /\ \A j \in 1..3 : VLe(pout.lik.v[j], pout.lik.v[m])
                /\ \A j \in 1..3 :
                    pout.data.PL.items[j] = Phred(pout.lik.v[j], pout.lik.v[m])
            /\ \A j \in 1..3 : PhredNonNegative(pout.data.PL.items[j])
            /\ \E j \in 1..3 : pout.data.PL.items[j] = Zero

C11_Witness ==
    /\ pout # None
    /\ pout.data.DP = IntV(2)
    /\ pout.data.PL # None
    /\ pout.data.PL.items[1] # Zero
    /\ pout.data.PL.items[2] = Zero

\* The pileups of depth 0 (no column, no read, an unmapped read) are there.
C11_WitnessZeroDepth ==
    /\ pout # None
    /\ pin.reads.column /\ Len(pin.reads.reads) = 1
    /\ pout.data.DP = IntV(0)
    /\ pout.data.PL = None

\* The EM loop of a pedigree marker has ended with the same finite final
\* log-likelihood on all 36 tracks.
C12_AllTracksEqual ==
    /\ mode = "ped" /\ pc # "em"
    /\ \A g \in DOMAIN param :
        /\ IsNum(Last(param[g]).loglik)
        /\ Last(param[g]).loglik = Last(param[SpecialGT]).loglik

\* C12: when all 36 tracks of a pedigree marker end with the same finite
\* log-likelihood, likelihood_ratio's null mixture is 1 and its alternative
\* mixture is 1 (each is e^0 times 9/9 and 27/27), and the ratio it returns
\* is 0.
C12_UniformLikelihoods ==
    C12_AllTracksEqual =>
        LET maxlik == MaxLoglik(param, DOMAIN param)
        IN /\ pc # "crashed"
           /\ lik_ratio = Flt(0, 1)
           /\ Mixture(param, {g \in DOMAIN param : IsNull(g)}, maxlik, H0_DIVISOR)
                  = [x \in {Zero} |-> Flt(1, 1)]
           /\ Mixture(param, {g \in DOMAIN param : ~IsNull(g)}, maxlik, H1_DIVISOR)
                  = [x \in {Zero} |-> Flt(1, 1)]

C12_Witness ==
    /\ C12_AllTracksEqual
    /\ pc = "lr"
    /\ lik_ratio = Flt(0, 1)
    /\ Cardinality(DOMAIN param) = 36

\* w is v rounded to 3 decimal places: a number of thousandths, at most half
\* a thousandth away from v.
IsRounded3(w, v) ==
    /\ w.k = "float"
    /\ 1000 % w.d = 0
    /\ VLe(VAbs(VSub(w, v)), Flt(1, 2000))

\* C13: write_record gives the record every float INFO value rounded to 3
\* decimal places, no INFO value that is None, a boolean only when it is
\* true, and every other defined value (iteration counts, strings) as it is.
C13_WrittenInfo ==
    pc = "written" =>
        /\ DOMAIN record \subseteq DOMAIN info
        /\ \A id \in DOMAIN info :
            LET val == info[id]
            IN /\ val = None => id \notin DOMAIN record
               /\ val.k = "float" => id \in DOMAIN record /\ IsRounded3(record[id], val)
               /\ val.k \in {"ninf", "pinf", "nan", "lnratio"} =>
                      id \in DOMAIN record /\ record[id] = val
               /\ val.k = "bool" =>
                      /\ id \in DOMAIN record <=> val = BoolV(TRUE)
                      /\ id \in DOMAIN record => record[id] = val
               /\ val.k \in {"int", "str"} =>
                      id \in DOMAIN record /\ record[id] = val

\* A written record with a float that rounding changed, an omitted None, an
\* omitted false flag and an iteration count.
C13_Witness ==
    /\ pc = "written" /\ mode = "marker"
    /\ info["AFH1"].k = "float" /\ record["AFH1"] # info["AFH1"]
    /\ info["InsMed"] = None /\ "InsMed" \notin DOMAIN record
    /\ info["EMFailH0"] = BoolV(FALSE) /\ "EMFailH0" \notin DOMAIN record
    /\ record["IterationH1"].k = "int"

\* A written record of a pedigree marker, with its strings.
C13_WitnessPed ==
    /\ pc = "written" /\ mode = "ped"
    /\ record["ParentsH1"].k = "str"

\* The number of calls of depth 0, counted one by one.
RECURSIVE CountZeroDP(_)
CountZeroDP(cs) ==
    IF cs = <<>> THEN 0
    ELSE (IF Head(cs).DP = 0 THEN 1 ELSE 0) + CountZeroDP(Tail(cs))

\* C14: a marker of total depth > 0 is seeded, on both tracks, with
\* lambda = totalDepth / (sampleCount - samples of depth 0), the divisor not
\* being 0, and delta = max(missing / sampleCount, 0.01), and its dispersion
\* is slope * lambda + intercept; ten depth-only samples of total depth 50
\* with one missing give lambda = 50/9, phi1 = [0.99, 0, 0.01] and
\* phi0 = [1, 0, 0].
C14_Seeds ==
    (mode = "marker" /\ SumDP(calls) > 0) =>
        LET n == Len(calls)
            zero == CountZeroDP(calls)
            lam == param["H1"][1]["lambda"]
            del == param["H1"][1]["delta"]
        IN /\ n - zero > 0
           /\ lam.k = "float" /\ lam.n * (n - zero) = SumDP(calls) * lam.d
           /\ del.k = "float"
           /\ del.n * n = zero * del.d \/ del = Flt(1, 100)
           /\ del.n * n >= zero * del.d /\ del.n * 100 >= del.d
           /\ disp = VAdd(VMul(dispcfg.slope, lam), dispcfg.intercept)
           /\ param["H0"][1]["lambda"] = lam /\ param["H0"][1]["delta"] = del
           /\ ~param["H1"][1].fail /\ ~param["H0"][1].fail
           /\ calls = TenSampleCalls =>
                /\ lam = Flt(50, 9)
                /\ param["H1"][1].phi = <<Flt(99, 100), IntV(0), Flt(1, 100)>>
                /\ param["H0"][1].phi = <<IntV(1), IntV(0), IntV(0)>>

C14_Witness ==
    /\ mode = "marker" /\ calls = TenSampleCalls
    /\ SumDP(calls) = 50 /\ CountZeroDP(calls) = 1
    /\ param["H0"][1]["lambda"] = Flt(50, 9)
    /\ param["H0"][1]["delta"] = Flt(1, 10)

\* The af the seeds use: the record's AF capped at 0.9999, 0.01 without one.
C15_AF ==
    IF af = None THEN Flt(1, 100)
    ELSE IF VLt(Flt(9999, 10000), af) THEN Flt(9999, 10000)
    ELSE af

\* The depth-only seeds phi1 = [1-d, 0, d], phi0 = [1, 0, 0], d = 0.01.
C15_DepthOnlySeeds ==
    /\ param["H1"][1].phi = <<Flt(99, 100), IntV(0), Flt(1, 100)>>
    /\ param["H0"][1].phi = <<IntV(1), IntV(0), IntV(0)>>

\* The af-based seeds phi1 = [(1-af)(1-d), af(1-d), d], phi0 = [1-af, af, 0].
C15_AFSeeds ==
    /\ param["H1"][1].phi =
           <<VMul(VSub(IntV(1), C15_AF), Flt(99, 100)),
             VMul(C15_AF, Flt(99, 100)), Flt(1, 100)>>
    /\ param["H0"][1].phi = <<VSub(IntV(1), C15_AF), C15_AF, IntV(0)>>

\* C15 (as stated): the seeds are the depth-only ones if any sample of the
\* call list lacks PL, and the af-based ones only when every sample has PL.
C15_DepthOnlyIfAnyLacksPL ==
    mode = "marker" =>
        IF \E i \in 1..Len(calls) : ~calls[i].PL
        THEN C15_DepthOnlySeeds
        ELSE C15_AFSeeds

\* C15 (amended): the seeds are the depth-only ones only when no sample of
\* the call list has PL; as soon as one sample has PL they are the af-based
\* ones, with af capped at 0.9999 and 0.01 by default.
C15_DepthOnlyIfNoneHasPL ==
    mode = "marker" =>
        IF \A i \in 1..Len(calls) : ~calls[i].PL
        THEN C15_DepthOnlySeeds
        ELSE C15_AFSeeds

\* A marker with a sample that has PL and one that has none, seeded from af.
C15_Witness ==
    /\ mode = "marker"
    /\ \E i, j \in 1..Len(calls) : calls[i].PL /\ ~calls[j].PL
    /\ af = IntV(1)
    /\ param["H0"][1].phi = <<Flt(1, 10000), Flt(9999, 10000), IntV(0)>>

\* |x - y| <= tol, on the numerators over a common denominator.
C16_Within(x, y, tol) ==
    LET den == LCM(LCM(x.d, y.d), tol.d)
        diff == x.n * (den \div x.d) - y.n * (den \div y.d)
    IN Abs(diff) <= tol.n * (den \div tol.d)

\* The terminal condition in the claim's words.
C16_Terminal(p, t) ==
    \/ Last(p).fail
    \/ /\ Len(p) >= 2
       /\ C16_Within(p[Len(p)].phi[2], p[Len(p) - 1].phi[2], t.phi_tol)
       /\ C16_Within(p[Len(p)].phi[3], p[Len(p) - 1].phi[3], t.phi_tol)
       /\ C16_Within(p[Len(p)]["lambda"], p[Len(p) - 1]["lambda"], t.lamb_tol)
       /\ C16_Within(p[Len(p)]["delta"], p[Len(p) - 1]["delta"], t.delta_tol)

\* C16: Marker.check_convergence is true exactly when the last snapshot has
\* fail = true, or the history has at least 2 snapshots and between the last
\* two the change of phi[1], of phi[2], of lambda and of delta are each at
\* most their tolerance (a change equal to the tolerance converges, one
\* tolerance exceeded does not, phi[0] is not looked at).
C16_MarkerConvergence ==
    mode = "marker" =>
        \A t \in Tracks : \A c \in TolConfigs :
            Marker_check_convergence(param[t], c) <=> C16_Terminal(param[t], c)

\* A track whose last step sits on the three default tolerances and moves
\* phi[0] by more than phi_tol, and that has converged.
C16_Witness ==
    /\ mode = "marker"
    /\ \E t \in Tracks :
        /\ Len(param[t]) >= 2 /\ ~Last(param[t]).fail
        /\ VSub(Last(param[t]).phi[3], param[t][Len(param[t]) - 1].phi[3]) = Flt(1, 1000)
        /\ VSub(Last(param[t])["lambda"], param[t][Len(param[t]) - 1]["lambda"]) = Flt(1, 10)
        /\ VSub(Last(param[t])["delta"], param[t][Len(param[t]) - 1]["delta"]) = Flt(5, 1000)
        /\ VSub(param[t][Len(param[t]) - 1].phi[1], Last(param[t]).phi[1]) = Flt(2, 1000)
        /\ Marker_check_convergence(param[t], DefaultTol)

\* A track whose last step exceeds one tolerance only, and has not converged.
C16_WitnessOneExceeded ==
    /\ mode = "marker"
    /\ \E t \in Tracks :
        /\ Len(param[t]) >= 2 /\ ~Last(param[t]).fail
        /\ VSub(Last(param[t])["lambda"], param[t][Len(param[t]) - 1]["lambda"]) = Flt(1, 5)
        /\ Last(param[t]).phi = param[t][Len(param[t]) - 1].phi
        /\ ~Marker_check_convergence(param[t], DefaultTol)

\* Values of lamb_tol a caller may pass: the default 0.25 and others.
C17_Tols == {PedDefaultTol, IntV(0), Flt(1, 2), IntV(-1)}

\* The terminal condition of a pedigree track in the claim's words.
C17_Terminal(p, lamb_tol) ==
    \/ Last(p).fail
    \/ /\ Len(p) >= 2
       /\ C16_Within(p[Len(p)]["lambda"], p[Len(p) - 1]["lambda"], lamb_tol)

\* C17: PedMarker.check_convergence is true exactly when the last snapshot of
\* the track has fail = true, or the track has at least 2 snapshots and its
\* lambda changed by at most lamb_tol (0.25 by default, the boundary
\* included) between the last two; the answer for a track is decided by that
\* track's history alone.
C17_PedConvergence ==
    mode = "ped" =>
        /\ PedDefaultTol = Flt(1, 4)
        /\ \A g \in DOMAIN param : \A tol \in C17_Tols :
            PedMarker_check_convergence(param[g], tol) <=> C17_Terminal(param[g], tol)

\* A track that converged on a change of lambda of exactly 0.25, while
\* another track of the marker changed by 0.5 and has not converged.
C17_Witness ==
    /\ mode = "ped"
    /\ \E g, h \in DOMAIN param :
        /\ Len(param[g]) >= 2 /\ ~Last(param[g]).fail
        /\ VSub(Last(param[g])["lambda"], param[g][Len(param[g]) - 1]["lambda"]) = Flt(1, 4)
        /\ PedMarker_check_convergence(param[g], PedDefaultTol)
        /\ Len(param[h]) >= 2 /\ ~Last(param[h]).fail
        /\ VSub(Last(param[h])["lambda"], param[h][Len(param[h]) - 1]["lambda"]) = Flt(1, 2)
        /\ ~PedMarker_check_convergence(param[h], PedDefaultTol)

\* The history of the track that the last update_param call was made on.
C18_Track ==
    IF mode = "marker"
    THEN param[CHOOSE t \in Tracks : TrackIdx(t) = ret.idx]
    ELSE param[TrioOrder[ret.idx]]

\* C18: when the solver raises, update_param (Marker and PedMarker) returns a
\* snapshot equal to the last snapshot of the history in every field but
\* fail, which is true; the snapshots the history held at the call are left
\* as they were, the last one with its own fail value.
C18_SolverErrorContained ==
    (ret.by # "none" /\ ret.raised) =>
        /\ ret.snap = [Last(ret.before) EXCEPT !.fail = TRUE]
        /\ Len(C18_Track) > Len(ret.before)
        /\ SubSeq(C18_Track, 1, Len(ret.before)) = ret.before
        /\ C18_Track[Len(ret.before) + 1] = ret.snap

\* The solver raised on an unrelated-sample track that had moved and had not
\* failed: the copy differs from the seed and from its original in fail.
C18_Witness ==
    /\ mode = "marker" /\ ret.by # "none" /\ ret.raised
    /\ Len(ret.before) > 1
    /\ ~Last(ret.before).fail
    /\ ret.snap.fail
    /\ ret.snap.phi # ret.before[1].phi

\* The same on a pedigree track.
C18_WitnessPed ==
    /\ mode = "ped" /\ ret.by # "none" /\ ret.raised
    /\ ~Last(ret.before).fail
    /\ ret.snap.fail

\* What em.ped_update returned to the last update_param call of the loop.
C19_Returned ==
    em_ped_update(Last(ret.before),
                  Outcome(solver[TrioOrder[ret.idx]], Len(ret.before))).v

\* C19: when the pedigree solver returns a log-likelihood of -inf,
\* update_param returns the snapshot with fail = true, the track is terminal
\* at the next check_convergence and no snapshot is ever added after it; when
\* the solver returns a finite log-likelihood, update_param returns the
\* solver's snapshot as it is, fail included.
C19_MinusInfinityTruncates ==
    mode = "ped" =>
        /\ (ret.by = "loop" /\ ~ret.raised) =>
            IF C19_Returned.loglik = NegInf
            THEN /\ ret.snap = [C19_Returned EXCEPT !.fail = TRUE]
                 /\ \A tol \in C17_Tols :
                      PedMarker_check_convergence(Append(ret.before, ret.snap), tol)
            ELSE ret.snap = C19_Returned
        /\ \A g \in DOMAIN param : \A i \in 1..(Len(param[g]) - 1) :
            param[g][i].loglik # NegInf

\* The solver returned -inf with fail = false after a step that is too large
\* to converge, and the track got no further call.
C19_Witness ==
    /\ mode = "ped" /\ pc # "em"
    /\ \E g \in DOMAIN param :
        /\ Len(param[g]) = 2
        /\ Last(param[g]).loglik = NegInf /\ Last(param[g]).fail
        /\ VSub(Last(param[g])["lambda"], param[g][1]["lambda"]) = Flt(1, 2)
        /\ solver[g] = <<PedBig(NegInf)>>

\* The solver returned a finite log-likelihood with fail = true.
C19_WitnessFinite ==
    /\ mode = "ped" /\ ret.by = "loop" /\ ~ret.raised
    /\ IsNum(C19_Returned.loglik) /\ C19_Returned.fail /\ ret.snap.fail

\* The number of family flags a call has set.
C20_Roles(call) ==
    (IF call.is_father THEN 1 ELSE 0) + (IF call.is_mother THEN 1 ELSE 0)
        + (IF call.is_child THEN 1 ELSE 0)

\* C20: every call of a marker that Reader.next returns has at most one of
\* is_father, is_mother and is_child set, also when the family's father is
\* its mother or one of its children; none is set without a family.
C20_OneRole ==
    rpc = "done" =>
        \A i \in 1..Len(rmarker.calls) :
            /\ C20_Roles(rmarker.calls[i]) <= 1
            /\ family = None => C20_Roles(rmarker.calls[i]) = 0

\* A marker of the family whose father is its mother, and of one whose
\* father is also a child: the sample is flagged as the father only.
C20_Witness ==
    /\ rpc = "done" /\ family # None
    /\ \E i \in 1..Len(rmarker.calls) :
        /\ rmarker.calls[i].sample = family.father
        /\ \/ family.father = family.mother
           \/ \E j \in 1..Len(family.children) : family.children[j] = family.father
        /\ rmarker.calls[i].is_father
        /\ ~rmarker.calls[i].is_mother /\ ~rmarker.calls[i].is_child

\* A marker read without a family: no flag is set.
C20_WitnessNoFamily ==
    /\ rpc = "done" /\ family = None /\ ped.given
    /\ \A i \in 1..Len(rmarker.calls) : C20_Roles(rmarker.calls[i]) = 0

\* The EM loop of a pedigree marker has ended with every final
\* log-likelihood defined and some of them negative infinity.
C21_SomeMinusInfinity ==
    /\ mode = "ped" /\ pc # "em"
    /\ \A g \in DOMAIN param : Last(param[g]).loglik # None
    /\ \E g \in DOMAIN param : Last(param[g]).loglik = NegInf

\* C21: PedMarker.likelihood_ratio does not raise when all 36 final
\* log-likelihoods are defined and some are negative infinity, also when all
\* 9 of the null subset, all 27 of the alternative subset or all 36 are.
C21_MinusInfinityNotCrash ==
    C21_SomeMinusInfinity => pc # "crashed"

====
